---- MODULE Spec2Model ----
(***************************************************************************)
(* A model of fetch_versions.py: the version-tag selector                  *)
(* (get_latest_version_tag), the two page-fetch loops (fetch_repos,        *)
(* fetch_tags) and the run (main) with its three files.                    *)
(*                                                                         *)
(* Python strings are TLA+ strings; a character is a string of length 1.   *)
(***************************************************************************)
EXTENDS Integers, Sequences, FiniteSets, TLC

VARIABLES
    pc,                \* control point of the running function
    caller,            \* where a page-fetch loop returns to
    unversioned_file,  \* UNVERSIONED_FILE: [exists, text]
    versions_file,     \* VERSIONS_FILE: [exists, text]
    readme_file,       \* README_FILE: [exists, text]
    org_listing,       \* transport: the organization's repository names
    remote,            \* transport: the records the server holds for the repository
                       \* (or organization) the run is at
    page,              \* fetch_repos / fetch_tags: page
    log,               \* the replies of the current page-fetch loop, in order
    requested,         \* the repositories a tag request was issued for
    unversioned,       \* main: unversioned
    repos,             \* fetch_repos: repos; main: repos
    idx,               \* main: position of the for loop
    tags,              \* fetch_tags: tags; main: tags
    latest_tag,        \* main: latest_tag (None or Some(tag))
    versions,          \* main: versions
    new_unversioned    \* main: new_unversioned

vars == <<pc, caller, unversioned_file, versions_file, readme_file, org_listing,
          remote, page, log, requested, unversioned, repos, idx, tags,
          latest_tag, versions, new_unversioned>>

(***************************************************************************)
(* Bounds of the model.                                                    *)
(***************************************************************************)
\* longest tag list handed to the selector on its own
MaxTags == 3
\* most records behind one URL when a page-fetch loop runs on its own
MaxRecords == 201
\* most repositories the organization lists in a run
MaxRepos == 2
\* how many of EXTRA_REPOS a run processes
MaxExtras == 2

(***************************************************************************)
(* Python values.                                                          *)
(***************************************************************************)
None == <<>>
Some(v) == <<v>>

Min(a, b) == IF a < b THEN a ELSE b

CharAt(s, i) == SubSeq(s, i, i)

\* the characters of the model in code-point order
CodeOrder == "\t\n -./0123456789@ABCDEFGHIJKLMNOPQRSTUVWXYZ_abcdefghijklmnopqrstuvwxyz"

ord == [c \in {CharAt(CodeOrder, i) : i \in 1..Len(CodeOrder)} |->
          CHOOSE i \in 1..Len(CodeOrder) : CharAt(CodeOrder, i) = c]

\* str < str: the first differing code point decides, a proper prefix is smaller
StrLessFrom[a \in STRING, b \in STRING, i \in Nat] ==
    IF i > Len(b) THEN FALSE
    ELSE IF i > Len(a) THEN TRUE
    ELSE IF CharAt(a, i) = CharAt(b, i) THEN StrLessFrom[a, b, i + 1]
    ELSE ord[CharAt(a, i)] < ord[CharAt(b, i)]

StrLess(a, b) == StrLessFrom[a, b, 1]

UpperCase == "ABCDEFGHIJKLMNOPQRSTUVWXYZ"
LowerCase == "abcdefghijklmnopqrstuvwxyz"

LowerOf == [c \in {CharAt(UpperCase, i) : i \in 1..Len(UpperCase)} |->
              CharAt(LowerCase, CHOOSE i \in 1..Len(UpperCase) : CharAt(UpperCase, i) = c)]

\* str.lower()
LowerFrom[s \in STRING, i \in Nat] ==
    IF i > Len(s) THEN ""
    ELSE (IF CharAt(s, i) \in DOMAIN LowerOf THEN LowerOf[CharAt(s, i)] ELSE CharAt(s, i))
           \o LowerFrom[s, i + 1]

lower(s) == LowerFrom[s, 1]

Whitespace == {" ", "\t", "\n"}

\* str.strip()
\* the first position at or after i, and the last at or before i, of a
\* character that is no whitespace
FirstInk[s \in STRING, i \in Nat] ==
    IF i <= Len(s) /\ CharAt(s, i) \in Whitespace THEN FirstInk[s, i + 1] ELSE i

LastInk[s \in STRING, i \in Nat] ==
    IF i >= 1 /\ CharAt(s, i) \in Whitespace THEN LastInk[s, i - 1] ELSE i

lstrip(s) == SubSeq(s, FirstInk[s, 1], Len(s))

rstrip(s) == SubSeq(s, 1, LastInk[s, Len(s)])

Stripped[s \in STRING] == rstrip(lstrip(s))

strip(s) == Stripped[s]

DecimalDigits == "0123456789"

DigitValue == [c \in {CharAt(DecimalDigits, i) : i \in 1..Len(DecimalDigits)} |->
                 (CHOOSE i \in 1..Len(DecimalDigits) : CharAt(DecimalDigits, i) = c) - 1]

IsDigit(c) == c \in DOMAIN DigitValue

\* the regular expression \d+ against a whole string
DigitsOnly[s \in STRING] == Len(s) >= 1 /\ \A i \in 1..Len(s) : IsDigit(CharAt(s, i))

AllDigits(s) == DigitsOnly[s]

\* int() of a digit string
IntOfFirst[s \in STRING, n \in Nat] ==
    IF n = 0 THEN 0 ELSE 10 * IntOfFirst[s, n - 1] + DigitValue[CharAt(s, n)]

int(s) == IntOfFirst[s, Len(s)]

\* str(n) of a natural number
StrOf[n \in Nat] ==
    IF n < 10 THEN CharAt(DecimalDigits, n + 1)
    ELSE StrOf[n \div 10] \o CharAt(DecimalDigits, (n % 10) + 1)

str(n) == StrOf[n]

\* the first position at or after from where sub starts in text, 0 if none
FindFrom[text \in STRING, sub \in STRING, from \in Nat] ==
    IF from + Len(sub) - 1 > Len(text) THEN 0
    ELSE IF SubSeq(text, from, from + Len(sub) - 1) = sub THEN from
    ELSE FindFrom[text, sub, from + 1]

Find(text, sub, from) == FindFrom[text, sub, from]

\* what a pattern ending in $ matches against: $ also matches before one final newline
BeforeFinalNewline[s \in STRING] ==
    IF Len(s) > 0 /\ CharAt(s, Len(s)) = "\n" THEN SubSeq(s, 1, Len(s) - 1) ELSE s

BeforeDollar(s) == BeforeFinalNewline[s]

(***************************************************************************)
(* get_latest_version_tag.                                                 *)
(***************************************************************************)
\* an entry of the lists the selector sorts: (key, tag)
KeyedTag == [key : Seq(Nat), tag : STRING]

\* tuple comparison of the sort keys
KeyLessThan(a, b) ==
    \/ a.key[1] < b.key[1]
    \/ Len(a.key) = 2 /\ a.key[1] = b.key[1] /\ a.key[2] < b.key[2]

\* InsertDesc without reverse=True: the sort is ascending
RECURSIVE InsertAsc(_, _)
InsertAsc(sorted, x) ==
    IF Len(sorted) = 0 THEN <<x>>
    ELSE IF KeyLessThan(x, Head(sorted))
         THEN <<x>> \o sorted
         ELSE <<Head(sorted)>> \o InsertAsc(Tail(sorted), x)

\* list.sort(reverse=True, key=...) is stable: of equal keys the earlier stays first
InsertDescInto[sorted \in Seq(KeyedTag), x \in KeyedTag] ==
    IF Len(sorted) = 0 THEN <<x>>
    ELSE IF KeyLessThan(Head(sorted), x)
         THEN <<x>> \o sorted
         ELSE <<Head(sorted)>> \o InsertDescInto[Tail(sorted), x]

InsertDesc(sorted, x) == InsertDescInto[sorted, x]

\* SortDesc by an unstable sort: of equal keys the later comes first
RECURSIVE SortDescLast(_, _)
SortDescLast(items, n) ==
    IF n > Len(items) THEN <<>> ELSE InsertDesc(SortDescLast(items, n + 1), items[n])

SortDesc_later_first(items) == SortDescLast(items, 1)

SortDescFirst[items \in Seq(KeyedTag), n \in Nat] ==
    IF n = 0 THEN <<>> ELSE InsertDesc(SortDescFirst[items, n - 1], items[n])

SortDesc(items) == SortDescFirst[items, Len(items)]

\* ^v(\d+)$
vinteger_match[s \in STRING] ==
    LET b == BeforeDollar(s)
    IN  IF Len(b) >= 2 /\ CharAt(b, 1) = "v" /\ AllDigits(SubSeq(b, 2, Len(b)))
        THEN Some(<<SubSeq(b, 2, Len(b))>>) ELSE None

vinteger_pattern(s) == vinteger_match[s]

\* ^(\d+)$
integer_match[s \in STRING] ==
    LET b == BeforeDollar(s)
    IN  IF AllDigits(b) THEN Some(<<b>>) ELSE None

integer_pattern(s) == integer_match[s]

\* major_minor_pattern without its final $: ^(\d+)\.(\d+) matches a prefix
major_minor_prefix(s) ==
    LET ends == {<<i, j>> \in (1..Len(s)) \X (1..Len(s)) :
                    /\ i < j
                    /\ CharAt(s, i) = "."
                    /\ AllDigits(SubSeq(s, 1, i - 1))
                    /\ AllDigits(SubSeq(s, i + 1, j))
                    /\ (j = Len(s) \/ ~IsDigit(CharAt(s, j + 1)))}
    IN  IF ends # {}
        THEN LET e == CHOOSE x \in ends : TRUE
             IN  Some(<<SubSeq(s, 1, e[1] - 1), SubSeq(s, e[1] + 1, e[2])>>)
        ELSE None

\* ^(\d+)\.(\d+)$
major_minor_match[s \in STRING] ==
    LET b == BeforeDollar(s)
        dots == {i \in 1..Len(b) : CharAt(b, i) = "."
                                   /\ AllDigits(SubSeq(b, 1, i - 1))
                                   /\ AllDigits(SubSeq(b, i + 1, Len(b)))}
    IN  IF dots # {}
        THEN LET i == CHOOSE j \in dots : TRUE
             IN  Some(<<SubSeq(b, 1, i - 1), SubSeq(b, i + 1, Len(b))>>)
        ELSE None

major_minor_pattern(s) == major_minor_match[s]

IntKey(groups) == <<int(groups[1])>>
\* MajorMinorKey with the two groups swapped
MinorMajorKey(groups) == <<int(groups[2]), int(groups[1])>>
MajorMinorKey(groups) == <<int(groups[1]), int(groups[2])>>

\* the lists the for loops of the selector collect: (key, tag.strip()) of each
\* tag that matches, in the order of the tags
vinteger_keyed[matching \in Seq(STRING)] ==
    IF Len(matching) = 0 THEN <<>>
    ELSE <<[key |-> IntKey(vinteger_pattern(strip(Head(matching)))[1]), tag |-> strip(Head(matching))]>>
           \o vinteger_keyed[Tail(matching)]

vinteger_tags(tagList) ==
    vinteger_keyed[SelectSeq(tagList, LAMBDA t : vinteger_pattern(strip(t)) # None)]

integer_keyed[matching \in Seq(STRING)] ==
    IF Len(matching) = 0 THEN <<>>
    ELSE <<[key |-> IntKey(integer_pattern(strip(Head(matching)))[1]), tag |-> strip(Head(matching))]>>
           \o integer_keyed[Tail(matching)]

integer_tags(tagList) ==
    integer_keyed[SelectSeq(tagList, LAMBDA t : integer_pattern(strip(t)) # None)]

major_minor_keyed[matching \in Seq(STRING)] ==
    IF Len(matching) = 0 THEN <<>>
    ELSE <<[key |-> MajorMinorKey(major_minor_pattern(strip(Head(matching)))[1]), tag |-> strip(Head(matching))]>>
           \o major_minor_keyed[Tail(matching)]

major_minor_tags(tagList) ==
    major_minor_keyed[SelectSeq(tagList, LAMBDA t : major_minor_pattern(strip(t)) # None)]

\* get_latest_version_tag trying MAJOR.MINOR before INTEGER
get_latest_version_tag_dotted_first(tagList) ==
    IF vinteger_tags(tagList) # <<>>
    THEN Some(SortDesc(vinteger_tags(tagList))[1].tag)
    ELSE IF major_minor_tags(tagList) # <<>>
    THEN Some(SortDesc(major_minor_tags(tagList))[1].tag)
    ELSE IF integer_tags(tagList) # <<>>
    THEN Some(SortDesc(integer_tags(tagList))[1].tag)
    ELSE None

get_latest_version_tag(tagList) ==
    IF vinteger_tags(tagList) # <<>>
    THEN Some(SortDesc(vinteger_tags(tagList))[1].tag)
    ELSE IF integer_tags(tagList) # <<>>
    THEN Some(SortDesc(integer_tags(tagList))[1].tag)
    ELSE IF major_minor_tags(tagList) # <<>>
    THEN Some(SortDesc(major_minor_tags(tagList))[1].tag)
    ELSE None

(***************************************************************************)
(* The selector on its own: a tag list is drawn, then the selector is      *)
(* called on it once.                                                      *)
(***************************************************************************)
\* the tags a list is drawn from: of each convention, values whose numeric order
\* differs from their string order (2 and 10), a value written twice (1 and 01)
PrefixedTags == {"v1", "v2", "v10", "v01"}
BareTags == {"1", "2", "10", "20"}
DottedTags == {a \o "." \o b : a \in {"2", "10"}, b \in {"1", "2", "10"}}
\* tags of no convention (test_invalid_version_tags) and the empty tag
MalformedTags == {"", "v", "V1", "v1a", "1.0.0", "v1.0.0"}
\* tags with surrounding and with inner whitespace
PaddedTags == {" v2", " 2.1 ", "v 1"}

SelTags == PrefixedTags \cup BareTags \cup DottedTags \cup MalformedTags \cup PaddedTags

NoFile == [exists |-> FALSE, text |-> ""]

Idle ==
    /\ caller = "none"
    /\ unversioned_file = NoFile
    /\ versions_file = NoFile
    /\ readme_file = NoFile
    /\ org_listing = <<>>
    /\ remote = <<>>
    /\ page = 0
    /\ log = <<>>
    /\ requested = {}
    /\ unversioned = {}
    /\ repos = <<>>
    /\ idx = 0
    /\ versions = <<>>
    /\ new_unversioned = {}

SelInit ==
    /\ Idle
    /\ pc = "sel_call"
    /\ tags = <<>>
    /\ latest_tag = None

\* the caller puts one more tag on the list
SelDraw ==
    /\ pc = "sel_call"
    /\ Len(tags) < MaxTags
    /\ \E t \in SelTags : tags' = Append(tags, t)
    /\ UNCHANGED <<pc, caller, unversioned_file, versions_file, readme_file, org_listing,
                   remote, page, log, requested, unversioned, repos, idx,
                   latest_tag, versions, new_unversioned>>

\* latest_tag = get_latest_version_tag(tags)
SelCall ==
    /\ pc = "sel_call"
    /\ latest_tag' = get_latest_version_tag(tags)
    /\ pc' = "sel_return"
    /\ UNCHANGED <<caller, unversioned_file, versions_file, readme_file, org_listing,
                   remote, page, log, requested, unversioned, repos, idx, tags,
                   versions, new_unversioned>>

SelNext == SelDraw \/ SelCall

SpecSel == SelInit /\ [][SelNext]_vars

\* The selector on lists of tags that have the same value: of each of the first
\* two conventions a value written twice (1 and 01) and once padded, a larger
\* value, and a tag of the third and of no convention.
TieTags == {"v1", "v01", " v1", "v2", "1", "01", "2", "2.1", "beta"}

TieDraw ==
    /\ pc = "sel_call"
    /\ Len(tags) < MaxTags
    /\ \E t \in TieTags : tags' = Append(tags, t)
    /\ UNCHANGED <<pc, caller, unversioned_file, versions_file, readme_file, org_listing,
                   remote, page, log, requested, unversioned, repos, idx,
                   latest_tag, versions, new_unversioned>>

TieNext == TieDraw \/ SelCall

SpecTie == SelInit /\ [][TieNext]_vars

(***************************************************************************)
(* The transport: curl against the GitHub API.  The server holds a list of *)
(* records behind a URL and serves it in pages; a reply is a JSON list, a  *)
(* JSON object with a message field, or no reply at all (curl fails or the *)
(* output is no JSON, and subprocess.run or json.loads raises).            *)
(***************************************************************************)
per_page == 100

ORG_NAME == "actions"

AllExtraRepos ==
    << "DeLaGuardo/setup-clojure",
       "DeterminateSystems/determinate-nix-action",
       "DeterminateSystems/flake-checker-action",
       "DeterminateSystems/flakehub-cache-action",
       "DeterminateSystems/flakehub-push",
       "DeterminateSystems/magic-nix-cache-action",
       "DeterminateSystems/nix-installer-action",
       "docker/build-push-action",
       "tailscale/github-action" >>

EXTRA_REPOS == SubSeq(AllExtraRepos, 1, Min(MaxExtras, Len(AllExtraRepos)))

\* page p of the records behind a URL
ServerPage(records, p) ==
    SubSeq(records, (p - 1) * per_page + 1, Min(p * per_page, Len(records)))

ListReply(items) == [kind |-> "list", items |-> items]
\* {"message": ...}
ErrorReply == [kind |-> "object", items |-> <<[key |-> "message"]>>]
\* check=True raises CalledProcessError, json.loads raises JSONDecodeError
NoReply == [kind |-> "raise", items |-> <<>>]

Replies(records, p) == {ListReply(ServerPage(records, p)), ErrorReply, NoReply}

\* the callers of the model that call one page-fetch loop and nothing else
Harness == {"test_fetch_repos", "test_fetch_tags"}

\* RaisePc with the exception caught in main, which goes on to write the files
RaisePc_caught == IF caller \in Harness THEN "raised" ELSE "write_versions"

\* where an exception ends: nothing in the program catches one
RaisePc == IF caller \in Harness THEN "raised" ELSE "aborted"

Names(items) == [i \in 1..Len(items) |-> items[i].name]

\* str.split("/", 1)
SplitOnce(s) ==
    IF Find(s, "/", 1) = 0 THEN <<s>>
    ELSE <<SubSeq(s, 1, Find(s, "/", 1) - 1), SubSeq(s, Find(s, "/", 1) + 1, Len(s))>>

\* the (org, repo_name) the running fetch_tags call was given
FetchTarget ==
    IF caller = "for_repos" THEN <<ORG_NAME, repos[idx].name>>
    ELSE IF caller = "for_extra" THEN SplitOnce(EXTRA_REPOS[idx])
    ELSE <<ORG_NAME, "big-repo">>

\* IsLastPage with <= for <: a full page ends the loop too
IsLastPageOrFull(items) == Len(items) <= per_page

\* if len(page) < per_page: break
IsLastPage(items) == Len(items) < per_page

\* fetch_repos: repos after a reply; a JSON object extends the list by its keys
ReposAfter(acc, reply) ==
    IF reply.items = <<>> THEN acc ELSE acc \o reply.items

\* fetch_repos: the reply ends the while loop
ReposLoopEnds(reply) == reply.items = <<>> \/ IsLastPage(reply.items)

\* TagsAfter returning [] on an error payload
TagsAfter_error_clears(acc, reply) ==
    IF reply.kind = "object" THEN <<>>
    ELSE IF reply.items = <<>> THEN acc
    ELSE acc \o Names(reply.items)

\* fetch_tags: tags after a reply
TagsAfter(acc, reply) ==
    IF reply.kind = "object" \/ reply.items = <<>> THEN acc
    ELSE acc \o Names(reply.items)

\* fetch_tags: the reply ends the while loop
TagsLoopEnds(reply) ==
    reply.kind = "object" \/ reply.items = <<>> \/ IsLastPage(reply.items)

\* NextPage without the increment: the same page is requested again
NextPage_same(p) == p

\* page += 1
NextPage(p) == p + 1

\* one iteration of the while loop of fetch_repos
FetchReposPage ==
    /\ pc = "fetch_repos"
    /\ \E reply \in Replies(remote, page) :
         /\ log' = Append(log, [page |-> page, reply |-> reply])
         /\ IF reply.kind = "raise"
            THEN /\ pc' = RaisePc
                 /\ UNCHANGED <<repos, page>>
            ELSE /\ repos' = ReposAfter(repos, reply)
                 /\ IF ReposLoopEnds(reply)
                    THEN /\ pc' = IF caller \in Harness THEN "returned" ELSE "for_repos"
                         /\ UNCHANGED page
                    ELSE /\ page' = NextPage(page)
                         /\ UNCHANGED pc
    /\ UNCHANGED <<caller, unversioned_file, versions_file, readme_file, org_listing,
                   remote, requested, unversioned, idx, tags, latest_tag, versions,
                   new_unversioned>>

\* one iteration of the while loop of fetch_tags
FetchTagsPage ==
    /\ pc = "fetch_tags"
    /\ requested' = requested \cup {FetchTarget}
    /\ \E reply \in Replies(remote, page) :
         /\ log' = Append(log, [page |-> page, reply |-> reply])
         /\ IF reply.kind = "raise"
            THEN /\ pc' = RaisePc
                 /\ UNCHANGED <<tags, page>>
            ELSE /\ tags' = TagsAfter(tags, reply)
                 /\ IF TagsLoopEnds(reply)
                    THEN /\ pc' = IF caller \in Harness THEN "returned" ELSE "got_tags"
                         /\ UNCHANGED page
                    ELSE /\ page' = NextPage(page)
                         /\ UNCHANGED pc
    /\ UNCHANGED <<caller, unversioned_file, versions_file, readme_file, org_listing,
                   remote, unversioned, repos, idx, latest_tag, versions,
                   new_unversioned>>

(***************************************************************************)
(* A page-fetch loop on its own: fetch_repos or fetch_tags is called once  *)
(* against a server holding 0 to MaxRecords records.                       *)
(***************************************************************************)
\* the records of the tests' servers: repo-0, repo-1, ... and v0, v1, ...
NumberedRecords(prefix, n) == [i \in 1..n |-> [name |-> prefix \o str(i - 1)]]

FetchInit ==
    /\ unversioned_file = NoFile
    /\ versions_file = NoFile
    /\ readme_file = NoFile
    /\ org_listing = <<>>
    /\ \E n \in 0..MaxRecords :
         \/ /\ caller = "test_fetch_repos"
            /\ pc = "fetch_repos"
            /\ remote = NumberedRecords("repo-", n)
         \/ /\ caller = "test_fetch_tags"
            /\ pc = "fetch_tags"
            /\ remote = NumberedRecords("v", n)
    /\ page = 1
    /\ log = <<>>
    /\ requested = {}
    /\ unversioned = {}
    /\ repos = <<>>
    /\ idx = 0
    /\ tags = <<>>
    /\ latest_tag = None
    /\ versions = <<>>
    /\ new_unversioned = {}

FetchNext == FetchReposPage \/ FetchTagsPage

SpecFetch == FetchInit /\ [][FetchNext]_vars

(***************************************************************************)
(* The files.                                                              *)
(***************************************************************************)
FileOf(text) == [exists |-> TRUE, text |-> text]

\* str.splitlines()
\* the lines of text from position i on
LinesFrom[text \in STRING, i \in Nat] ==
    IF i > Len(text) THEN <<>>
    ELSE IF Find(text, "\n", i) = 0 THEN <<SubSeq(text, i, Len(text))>>
    ELSE <<SubSeq(text, i, Find(text, "\n", i) - 1)>> \o LinesFrom[text, Find(text, "\n", i) + 1]

splitlines(text) == LinesFrom[text, 1]

load_unversioned(file) ==
    IF ~file.exists THEN {}
    ELSE LET lines == splitlines(file.text)
         IN  {strip(lines[i]) : i \in {j \in 1..Len(lines) : strip(lines[j]) # ""}}

\* sorted() of a set of strings
SortedOf[S \in SUBSET STRING] ==
    IF S = {} THEN <<>>
    ELSE LET least == CHOOSE x \in S : \A y \in S \ {x} : StrLess(x, y)
         IN  <<least>> \o SortedOf[S \ {least}]

sorted(S) == SortedOf[S]

\* the text of lines, each followed by a newline
WriteLinesOf[lines \in Seq(STRING)] ==
    IF Len(lines) = 0 THEN "" ELSE Head(lines) \o "\n" \o WriteLinesOf[Tail(lines)]

WriteLines(lines) == WriteLinesOf[lines]

\* the file save_unversioned(repos) leaves
save_unversioned(repos_) == FileOf(WriteLines(sorted(repos_)))

\* "\n".join(lines)
JoinOf[lines \in Seq(STRING)] ==
    IF Len(lines) = 0 THEN ""
    ELSE IF Len(lines) = 1 THEN Head(lines)
    ELSE Head(lines) \o "\n" \o JoinOf[Tail(lines)]

join(lines) == JoinOf[lines]

README_START_MARKER == "<!-- VERSIONS_START -->"
README_END_MARKER == "<!-- VERSIONS_END -->"

\* the fence of a code block: three backquotes, which a TLA+ string cannot hold
Fence == "~~~"

new_section(versions_content) ==
    README_START_MARKER \o "\n## Latest versions\n\n" \o Fence \o "\n" \o versions_content
        \o Fence \o "\n" \o README_END_MARKER

\* pattern.sub(new_section, readme_text): every START.*?END, leftmost first
Substituted[text \in STRING, section \in STRING] ==
    LET i == Find(text, README_START_MARKER, 1)
        j == IF i = 0 THEN 0 ELSE Find(text, README_END_MARKER, i + Len(README_START_MARKER))
    IN  IF j = 0 THEN text
        ELSE SubSeq(text, 1, i - 1) \o section
               \o Substituted[SubSeq(text, j + Len(README_END_MARKER), Len(text)), section]

SubstituteSections(text, section) == Substituted[text, section]

\* update_readme creating the file with the section when it does not exist
update_readme_creates(file, versions_content) ==
    IF ~file.exists THEN FileOf(new_section(versions_content) \o "\n")
    ELSE IF /\ Find(file.text, README_START_MARKER, 1) # 0
            /\ Find(file.text, README_END_MARKER, 1) # 0
         THEN FileOf(SubstituteSections(file.text, new_section(versions_content)))
         ELSE FileOf(rstrip(file.text) \o "\n\n" \o new_section(versions_content) \o "\n")

\* the file update_readme(versions_content) leaves
update_readme(file, versions_content) ==
    IF ~file.exists THEN file
    ELSE IF /\ Find(file.text, README_START_MARKER, 1) # 0
            /\ Find(file.text, README_END_MARKER, 1) # 0
         THEN FileOf(SubstituteSections(file.text, new_section(versions_content)))
         ELSE FileOf(rstrip(file.text) \o "\n\n" \o new_section(versions_content) \o "\n")

(***************************************************************************)
(* main.                                                                   *)
(***************************************************************************)
\* versions.sort(key=lambda x: x[0].lower()): stable, ascending
InsertByPathInto[sortedPairs \in Seq(STRING \X STRING), x \in STRING \X STRING] ==
    IF Len(sortedPairs) = 0 THEN <<x>>
    ELSE IF StrLess(lower(x[1]), lower(Head(sortedPairs)[1]))
         THEN <<x>> \o sortedPairs
         ELSE <<Head(sortedPairs)>> \o InsertByPathInto[Tail(sortedPairs), x]

InsertByPath(sortedPairs, x) == InsertByPathInto[sortedPairs, x]

SortByPathFirst[pairs \in Seq(STRING \X STRING), n \in Nat] ==
    IF n = 0 THEN <<>> ELSE InsertByPath(SortByPathFirst[pairs, n - 1], pairs[n])

SortByPath(pairs) == SortByPathFirst[pairs, Len(pairs)]

\* f"{full_repo}@{tag}"
VersionLine(pair) == pair[1] \o "@" \o pair[2]

versions_content(sortedPairs) ==
    join([i \in 1..Len(sortedPairs) |-> VersionLine(sortedPairs[i])]) \o "\n"

\* the lists of repositories the server may hold for the organization: the
\* first repositories of a list in alphabetical and of one in reverse order
OrgOrders == {<<"cache", "checkout", "setup-node">>, <<"setup-node", "checkout", "cache">>}

OrgListings == {SubSeq(o, 1, n) : o \in OrgOrders, n \in 0..Min(MaxRepos, 3)}

\* the identifiers an unversioned.txt left by an earlier run may hold: the bare
\* name of a repository of the organization, the full path of the last extra
\* repository, and its bare name
LastExtra == EXTRA_REPOS[Len(EXTRA_REPOS)]
CacheIds == {"cache", LastExtra, SplitOnce(LastExtra)[2]}

\* the tag lists the server may hold for a repository: none, unclassified tags
\* only, version tags, and a page of unclassified tags followed by a version tag
TagListings ==
    { <<>>,
      <<"v1.0.0", "beta">>,
      <<"v2", "v10", "v1.0.0">>,
      [i \in 1..per_page |-> "nightly-" \o str(i)] \o <<"v10">> }

ReadmeTexts ==
    { "# Versions\n",
      "# Versions\n" \o README_START_MARKER \o "\nold\n" \o README_END_MARKER \o "\nEnd\n" }

Init ==
    /\ pc = "main"
    /\ caller = "main"
    /\ unversioned_file \in {NoFile} \cup {save_unversioned(S) : S \in SUBSET CacheIds}
    /\ versions_file = FileOf("actions/checkout@v1\n")
    /\ readme_file \in {NoFile} \cup {FileOf(t) : t \in ReadmeTexts}
    /\ org_listing \in OrgListings
    /\ remote = <<>>
    /\ page = 0
    /\ log = <<>>
    /\ requested = {}
    /\ unversioned = {}
    /\ repos = <<>>
    /\ idx = 0
    /\ tags = <<>>
    /\ latest_tag = None
    /\ versions = <<>>
    /\ new_unversioned = {}

\* FreshUnversioned starting from the loaded cache: the caches are merged
FreshUnversioned_merged(loaded) == loaded

\* new_unversioned = set()
FreshUnversioned(loaded) == {}

\* main, lines 215-224: the cache is loaded and fetch_repos(ORG_NAME) is called
MainLoad ==
    /\ pc = "main"
    /\ \E loaded \in {load_unversioned(unversioned_file)} :
           /\ unversioned' = loaded
           /\ new_unversioned' = FreshUnversioned(loaded)
    /\ versions' = <<>>
    /\ idx' = 1
    /\ remote' = [i \in 1..Len(org_listing) |-> [name |-> org_listing[i]]]
    /\ repos' = <<>>
    /\ page' = 1
    /\ log' = <<>>
    /\ pc' = "fetch_repos"
    /\ UNCHANGED <<caller, unversioned_file, versions_file, readme_file, org_listing,
                   requested, tags, latest_tag>>

\* PrimaryKey with the full path for the bare name
PrimaryKey_full(repo_name) == ORG_NAME \o "/" \o repo_name

\* the key in the cache of a repository of the organization: its bare name
PrimaryKey(repo_name) == repo_name

\* ExtraKey with the bare name for the full path
ExtraKey_bare(full_repo) == SplitOnce(full_repo)[2]

\* the key in the cache of an extra repository: its full path
ExtraKey(full_repo) == full_repo

\* the for loop reaches a repository: the server holds some tag list for it
ServerHoldsTags ==
    \E listing \in TagListings :
        remote' = [i \in 1..Len(listing) |-> [name |-> listing[i]]]

\* fetch_tags(org, repo_name) is entered
CallFetchTags(from) ==
    /\ caller' = from
    /\ tags' = <<>>
    /\ page' = 1
    /\ log' = <<>>
    /\ pc' = "fetch_tags"

\* main, lines 227-237: one pass of the for loop over repos, up to the call of fetch_tags
ForRepos ==
    /\ pc = "for_repos"
    /\ IF idx > Len(repos)
       THEN /\ pc' = "for_extra"
            /\ idx' = 1
            /\ UNCHANGED <<caller, remote, tags, page, log, new_unversioned>>
       ELSE IF "name" \notin DOMAIN repos[idx]
       THEN \* repo["name"] of a key of a JSON object: TypeError
            /\ pc' = "aborted"
            /\ UNCHANGED <<caller, remote, tags, page, log, new_unversioned, idx>>
       ELSE IF PrimaryKey(repos[idx].name) \in unversioned
       THEN /\ ServerHoldsTags
            /\ new_unversioned' = new_unversioned \cup {PrimaryKey(repos[idx].name)}
            /\ idx' = idx + 1
            /\ UNCHANGED <<pc, caller, tags, page, log>>
       ELSE /\ ServerHoldsTags
            /\ CallFetchTags("for_repos")
            /\ UNCHANGED <<new_unversioned, idx>>
    /\ UNCHANGED <<unversioned_file, versions_file, readme_file, org_listing,
                   requested, unversioned, repos, latest_tag, versions>>

\* main, lines 250-260: one pass of the for loop over EXTRA_REPOS, up to the call
ForExtra ==
    /\ pc = "for_extra"
    /\ IF idx > Len(EXTRA_REPOS)
       THEN /\ pc' = "write_versions"
            /\ UNCHANGED <<caller, remote, tags, page, log, new_unversioned, idx>>
       ELSE IF ExtraKey(EXTRA_REPOS[idx]) \in unversioned
       THEN /\ ServerHoldsTags
            /\ new_unversioned' = new_unversioned \cup {ExtraKey(EXTRA_REPOS[idx])}
            /\ idx' = idx + 1
            /\ UNCHANGED <<pc, caller, tags, page, log>>
       ELSE /\ ServerHoldsTags
            /\ CallFetchTags("for_extra")
            /\ UNCHANGED <<new_unversioned, idx>>
    /\ UNCHANGED <<unversioned_file, versions_file, readme_file, org_listing,
                   requested, unversioned, repos, latest_tag, versions>>

\* FullRepo without the organization: the record of a repository of the
\* organization holds its bare name
FullRepo_bare == IF caller = "for_repos" THEN repos[idx].name
                 ELSE EXTRA_REPOS[idx]

\* the repository of the pass: its path in the manifest, its key in the cache
FullRepo == IF caller = "for_repos" THEN ORG_NAME \o "/" \o repos[idx].name
            ELSE EXTRA_REPOS[idx]
CacheKey == IF caller = "for_repos" THEN PrimaryKey(repos[idx].name)
            ELSE ExtraKey(EXTRA_REPOS[idx])

\* if latest_tag:
Truthy(value) == value # None /\ value # Some("")

\* main, lines 238-245 and 261-268: the rest of the pass, after fetch_tags returned
GotTags ==
    /\ pc = "got_tags"
    /\ \E selected \in {get_latest_version_tag(tags)} :
           /\ latest_tag' = selected
           /\ IF Truthy(selected)
              THEN /\ versions' = Append(versions, <<FullRepo, selected[1]>>)
                   /\ UNCHANGED new_unversioned
              ELSE /\ new_unversioned' = new_unversioned \cup {CacheKey}
                   /\ UNCHANGED versions
    /\ idx' = idx + 1
    /\ pc' = caller
    /\ UNCHANGED <<caller, unversioned_file, versions_file, readme_file, org_listing,
                   remote, page, log, requested, unversioned, repos, tags>>

\* main, lines 271-280: versions is sorted and versions.txt written
WriteVersions ==
    /\ pc = "write_versions"
    /\ \E sortedPairs \in {SortByPath(versions)} :
           /\ versions' = sortedPairs
           /\ versions_file' = FileOf(versions_content(sortedPairs))
    /\ pc' = "update_readme"
    /\ UNCHANGED <<caller, unversioned_file, readme_file, org_listing, remote, page,
                   log, requested, unversioned, repos, idx, tags, latest_tag,
                   new_unversioned>>

\* main, line 283
UpdateReadme ==
    /\ pc = "update_readme"
    /\ \E content \in {versions_content(versions)} :
           readme_file' = update_readme(readme_file, content)
    /\ pc' = "save_unversioned"
    /\ UNCHANGED <<caller, unversioned_file, versions_file, org_listing, remote, page,
                   log, requested, unversioned, repos, idx, tags, latest_tag,
                   versions, new_unversioned>>

\* main, lines 286-289
SaveUnversioned ==
    /\ pc = "save_unversioned"
    /\ unversioned_file' = save_unversioned(new_unversioned)
    /\ pc' = "done"
    /\ UNCHANGED <<caller, versions_file, readme_file, org_listing, remote, page,
                   log, requested, unversioned, repos, idx, tags, latest_tag,
                   versions, new_unversioned>>

Next ==
    \/ MainLoad
    \/ FetchReposPage
    \/ ForRepos
    \/ FetchTagsPage
    \/ GotTags
    \/ ForExtra
    \/ WriteVersions
    \/ UpdateReadme
    \/ SaveUnversioned

Spec == Init /\ [][Next]_vars

\* main runs on its own and each call of the transport returns: a step that can
\* be taken is taken
FairSpec == Spec /\ WF_vars(Next)

(***************************************************************************)
(* The three conventions as the specification states them: a tag is        *)
(* classified after its surrounding whitespace is trimmed.                 *)
(***************************************************************************)
IsPrefixedInteger(t) ==
    LET s == strip(t)
    IN  Len(s) >= 2 /\ CharAt(s, 1) = "v" /\ AllDigits(SubSeq(s, 2, Len(s)))

IsBareInteger(t) == AllDigits(strip(t))

IsMajorMinor(t) ==
    LET s == strip(t)
    IN  \E i \in 2..(Len(s) - 1) :
            /\ CharAt(s, i) = "."
            /\ AllDigits(SubSeq(s, 1, i - 1))
            /\ AllDigits(SubSeq(s, i + 1, Len(s)))

PrefixedValue(t) == int(SubSeq(strip(t), 2, Len(strip(t))))
BareValue(t) == int(strip(t))
DotAt(t) == CHOOSE i \in 1..Len(strip(t)) : CharAt(strip(t), i) = "."
MajorOf(t) == int(SubSeq(strip(t), 1, DotAt(t) - 1))
MinorOf(t) == int(SubSeq(strip(t), DotAt(t) + 1, Len(strip(t))))

Classified(t) == IsPrefixedInteger(t) \/ IsBareInteger(t) \/ IsMajorMinor(t)

PrefixedIn(list) == {list[i] : i \in {j \in 1..Len(list) : IsPrefixedInteger(list[j])}}
BareIn(list) == {list[i] : i \in {j \in 1..Len(list) : IsBareInteger(list[j])}}
DottedIn(list) == {list[i] : i \in {j \in 1..Len(list) : IsMajorMinor(list[j])}}
Trimmed(list) == {strip(list[i]) : i \in 1..Len(list)}

Selected == pc = "sel_return"

\* C1: when the list holds a prefixed-integer tag, the selector returns a
\* prefixed-integer tag of the list whose integer value is the largest among
\* the list's prefixed-integer tags, whatever else the list holds.
C1_PrefixedMaximum ==
    (Selected /\ PrefixedIn(tags) # {}) =>
        /\ latest_tag # None
        /\ latest_tag[1] \in Trimmed(tags)
        /\ IsPrefixedInteger(latest_tag[1])
        /\ \A t \in PrefixedIn(tags) :
               PrefixedValue(t) <= PrefixedValue(latest_tag[1])

\* the selector has run on a list with two prefixed tags whose numeric order is
\* the reverse of their string order, and a bare integer larger than both
C1_Witness ==
    /\ Selected
    /\ \E a, b \in PrefixedIn(tags) :
           /\ PrefixedValue(a) < PrefixedValue(b)
           /\ StrLess(strip(b), strip(a))
           /\ latest_tag = Some(strip(b))
    /\ \E c \in BareIn(tags) :
           \A a \in PrefixedIn(tags) : PrefixedValue(a) < BareValue(c)

\* C2: with no prefixed-integer tag and at least one bare-integer tag, the
\* selector returns a bare-integer tag of the list of the largest value, so
\* never a major.minor tag.
C2_BareMaximum ==
    (Selected /\ PrefixedIn(tags) = {}
              /\ BareIn(tags) # {}) =>
        /\ latest_tag # None
        /\ latest_tag[1] \in Trimmed(tags)
        /\ IsBareInteger(latest_tag[1])
        /\ ~IsMajorMinor(latest_tag[1])
        /\ \A t \in BareIn(tags) : BareValue(t) <= BareValue(latest_tag[1])

\* the selector has run on a list without prefixed tags, with two different bare
\* integers and a major.minor tag whose major exceeds every bare integer
C2_Witness ==
    /\ Selected
    /\ PrefixedIn(tags) = {}
    /\ \E a, b \in BareIn(tags) :
           BareValue(a) < BareValue(b) /\ latest_tag = Some(strip(b))
    /\ \E m \in DottedIn(tags) :
           \A a \in BareIn(tags) : BareValue(a) < MajorOf(m)

\* C3: with no prefixed-integer and no bare-integer tag and at least one
\* major.minor tag, the selector returns a major.minor tag of the list whose
\* (major, minor) pair is the largest: major first, minor between equal majors.
C3_MajorMinorMaximum ==
    (Selected /\ PrefixedIn(tags) = {}
              /\ BareIn(tags) = {}
              /\ DottedIn(tags) # {}) =>
        /\ latest_tag # None
        /\ latest_tag[1] \in Trimmed(tags)
        /\ IsMajorMinor(latest_tag[1])
        /\ \A t \in DottedIn(tags) :
               \/ MajorOf(t) < MajorOf(latest_tag[1])
               \/ /\ MajorOf(t) = MajorOf(latest_tag[1])
                  /\ MinorOf(t) <= MinorOf(latest_tag[1])

\* the selector has run on major.minor tags only: the returned one has the larger
\* major and the smaller minor of two, and the larger minor of two of its major
C3_Witness ==
    /\ Selected
    /\ \A i \in 1..Len(tags) : IsMajorMinor(tags[i])
    /\ \E a, b, c \in DottedIn(tags) :
           /\ latest_tag = Some(strip(a))
           /\ MajorOf(b) < MajorOf(a) /\ MinorOf(a) < MinorOf(b)
           /\ StrLess(strip(a), strip(b))
           /\ MajorOf(c) = MajorOf(a) /\ MinorOf(c) < MinorOf(a)
           /\ tags[1] = c

\* C4: the selector returns None exactly when no tag of the list is of one of
\* the three conventions, and a tag it returns is of one of them.
C4_NoneIffUnclassified ==
    Selected =>
        /\ (latest_tag = None) <=> (\A i \in 1..Len(tags) : ~Classified(tags[i]))
        /\ latest_tag # None => Classified(latest_tag[1])

\* the selector has returned None for a list of several malformed tags, a
\* three-component version and an uppercase prefix among them
C4_Witness ==
    /\ Selected
    /\ latest_tag = None
    /\ {"1.0.0", "V1", "v1a"} \subseteq {tags[i] : i \in 1..Len(tags)}

(***************************************************************************)
(* The page-fetch loops.                                                   *)
(***************************************************************************)
IsFullList(reply) == reply.kind = "list" /\ Len(reply.items) = per_page
IsShortList(reply) == reply.kind = "list" /\ Len(reply.items) < per_page
LastReply == log[Len(log)].reply

\* the records of the list pages received so far, in the order received
RECURSIVE ReceivedIn(_)
ReceivedIn(entries) ==
    IF Len(entries) = 0 THEN <<>>
    ELSE ReceivedIn(SubSeq(entries, 1, Len(entries) - 1))
           \o (IF entries[Len(entries)].reply.kind = "list"
               THEN entries[Len(entries)].reply.items ELSE <<>>)

Received == ReceivedIn(log)

\* C5: fetch_repos and fetch_tags request pages 1, 2, 3, ... in turn; the loop
\* is still running, about to request the next page, exactly as long as every
\* page so far was a full list of 100; it returns at the first list shorter than
\* 100 (empty included), and what it returns is the records of the received
\* pages in order, which are the server's records, none dropped or repeated.
C5_Pagination ==
    caller \in Harness =>
        /\ \A i \in 1..Len(log) : log[i].page = i
        /\ \A i \in 1..(Len(log) - 1) : IsFullList(log[i].reply)
        /\ pc \in {"fetch_repos", "fetch_tags"} =>
               /\ \A i \in 1..Len(log) : IsFullList(log[i].reply)
               /\ page = Len(log) + 1
        /\ (pc = "returned" /\ \A i \in 1..Len(log) : log[i].reply.kind = "list") =>
               /\ IsShortList(LastReply)
               /\ caller = "test_fetch_repos" => repos = Received /\ repos = remote
               /\ caller = "test_fetch_tags" =>
                      tags = Names(Received) /\ tags = Names(remote)

\* fetch_tags has returned after two full pages and a third page of one record
C5_Witness ==
    /\ caller = "test_fetch_tags"
    /\ pc = "returned"
    /\ Len(log) = 3
    /\ \A i \in 1..Len(log) : log[i].reply.kind = "list"
    /\ Len(LastReply.items) = 1
    /\ Len(tags) = 2 * per_page + 1

\* C6: in a run, once a tag page is an error payload, fetch_tags has returned
\* without raising and without a further request, with exactly the tag names of
\* the pages before it (none if it was page 1), and the run is not aborted.
C6_ErrorPageEndsFetch ==
    (caller \in {"for_repos", "for_extra"} /\ log # <<>> /\ LastReply = ErrorReply) =>
        /\ pc \notin {"fetch_tags", "aborted"}
        /\ \A i \in 1..Len(log) : log[i].page = i
        /\ page = Len(log)
        /\ tags = Names(Received)
        /\ Len(tags) = (Len(log) - 1) * per_page

\* the second tag page of the first extra repository was an error payload; the
\* first page's 100 names were returned and the run is at the next repository
C6_Witness ==
    /\ pc = "for_extra"
    /\ idx = 2
    /\ Len(log) = 2
    /\ LastReply = ErrorReply
    /\ Len(tags) = per_page

(***************************************************************************)
(* The run.                                                                *)
(***************************************************************************)
\* the repositories the organization listed in this run
Enumerated == {repos[i].name : i \in {j \in 1..Len(repos) : "name" \in DOMAIN repos[j]}}
Extras == {EXTRA_REPOS[i] : i \in 1..Len(EXTRA_REPOS)}

\* the identifiers in unversioned.txt
WrittenIn(file) ==
    LET lines == splitlines(file.text)
    IN  {lines[i] : i \in 1..Len(lines)}

Written == WrittenIn(unversioned_file)

\* C7: no tag request is issued for a listed repository of the organization
\* whose bare name, or an extra repository whose full path, is in the loaded
\* cache, and when the run is done its identifier is in the written cache;
\* every repository not in the loaded cache has had its tags requested.
C7_CachedSkipped ==
    /\ \A n \in Enumerated :
           n \in unversioned =>
               /\ <<ORG_NAME, n>> \notin requested
               /\ pc = "done" => n \in Written
    /\ \A e \in Extras :
           e \in unversioned =>
               /\ SplitOnce(e) \notin requested
               /\ pc = "done" => e \in Written
    /\ pc = "done" =>
           /\ \A n \in Enumerated : n \notin unversioned => <<ORG_NAME, n>> \in requested
           /\ \A e \in Extras : e \notin unversioned => SplitOnce(e) \in requested

\* a run is done that skipped a cached repository of the organization and a
\* cached extra repository, and fetched the tags of another of each kind
C7_Witness ==
    /\ pc = "done"
    /\ \E n, m \in Enumerated :
           /\ n \in unversioned /\ n \in Written
           /\ m \notin unversioned /\ <<ORG_NAME, m>> \in requested
    /\ \E e, f \in Extras :
           /\ e \in unversioned /\ e \in Written
           /\ f \notin unversioned /\ SplitOnce(f) \in requested
    /\ SplitOnce(LastExtra)[2] \in unversioned

\* the records of versions some way round
Orderings(n) == {f \in [1..n -> 1..n] : \A i, j \in 1..n : f[i] = f[j] => i = j}

\* C8: the manifest a run writes is, for the accepted records in some order, the
\* line owner/repo@tag of each followed by a newline, and nothing else; the
\* owner/repo of a line is never case-insensitively greater than the next one's.
C8_Manifest ==
    [][pc = "write_versions" =>
         \E f \in Orderings(Len(versions)) :
             /\ versions_file'.text =
                    WriteLines([i \in 1..Len(versions) |-> VersionLine(versions[f[i]])])
             /\ \A i \in 1..(Len(versions) - 1) :
                    ~StrLess(lower(versions[f[i + 1]][1]), lower(versions[f[i]][1]))]_vars

\* C9: when the selector returns None for the tags fetched for a repository, the
\* bare name of a repository of the organization, the full path of an extra one,
\* is put into new_unversioned and the run goes to the next repository; nothing
\* leaves new_unversioned, and unversioned.txt is written with all of it.
C9_UnversionedRecorded ==
    [][/\ (pc = "got_tags" /\ latest_tag' = None) =>
              /\ caller = "for_repos" => repos[idx].name \in new_unversioned'
              /\ caller = "for_extra" => EXTRA_REPOS[idx] \in new_unversioned'
              /\ pc' = caller
              /\ idx' = idx + 1
       /\ pc # "main" => new_unversioned \subseteq new_unversioned'
       /\ pc' = "done" => new_unversioned \subseteq WrittenIn(unversioned_file')]_vars

\* a run is done in which the tags of a repository of the organization and of an
\* extra repository were fetched and both are in the written cache
C9_Witness ==
    /\ pc = "done"
    /\ \E n \in Enumerated :
           n \notin unversioned /\ <<ORG_NAME, n>> \in requested /\ n \in Written
    /\ \E e \in Extras :
           e \notin unversioned /\ SplitOnce(e) \in requested /\ e \in Written

\* the keys of the repositories a run goes through
EnumeratedKeys == Enumerated \cup Extras

HasVersionTag(records) == \E i \in 1..Len(records) : Classified(records[i].name)

\* C10 as stated: an identifier of the loaded cache is not in the written cache
\* when its repository is no longer enumerated, nor when its repository now has
\* a tag of a recognized convention (remote is the tag list the server holds for
\* the repository the run went to last, the last extra repository).
C10_DroppedWhenGoneOrTagged ==
    pc = "done" =>
        /\ \A id \in unversioned : id \notin EnumeratedKeys => id \notin Written
        /\ (LastExtra \in unversioned /\ HasVersionTag(remote)) => LastExtra \notin Written

\* C10 as amended: the written cache holds keys of this run's repositories only;
\* of the loaded cache, exactly the identifiers that are such keys are written
\* back, whatever tags their repositories have by now.
C10_DroppedWhenGone ==
    pc = "done" =>
        /\ Written \subseteq EnumeratedKeys
        /\ \A id \in unversioned : id \in Written <=> id \in EnumeratedKeys

\* a run is done whose loaded cache held an identifier of no repository of the
\* run, which is not written, and the identifier of a repository that has a
\* version tag by now, which is written
C10_Witness ==
    /\ pc = "done"
    /\ \E id \in unversioned : id \notin EnumeratedKeys /\ id \notin Written
    /\ LastExtra \in unversioned /\ HasVersionTag(remote) /\ LastExtra \in Written

\* C11: whatever the transport does, a step that puts a repository whose tags
\* were fetched into new_unversioned (all of which is written to unversioned.txt)
\* is taken only when the tag list the server holds for the repository has no
\* tag of a recognized convention.
C11_UnversionedOnlyIfUntagged ==
    [][(pc = "got_tags" /\ CacheKey \in new_unversioned') => ~HasVersionTag(remote)]_vars

\* the three files, and the steps of main that write them
Files == <<versions_file, readme_file, unversioned_file>>
WritePcs == {"write_versions", "update_readme", "save_unversioned"}

\* a repository has been processed: it is in one of the two accumulations
Accepted == {versions[i][1] : i \in 1..Len(versions)}
ProcessedPrimary(n) == n \in new_unversioned \/ (ORG_NAME \o "/" \o n) \in Accepted
ProcessedExtra(e) == e \in new_unversioned \/ e \in Accepted

\* C12: a step changes a file only in the writing part of main; the writing part
\* is entered only from the end of the loop over EXTRA_REPOS, with every listed
\* and every extra repository processed, and is left only by finishing; a step
\* that aborts the run is taken outside the writing part and changes no file.
\* So a run that is aborted has all three files as they were at its start.
C12_NoWriteBeforeAllProcessed ==
    [][/\ Files' # Files => pc \in WritePcs
       /\ (pc \notin WritePcs /\ pc' \in WritePcs) =>
              /\ pc = "for_extra" /\ idx > Len(EXTRA_REPOS)
              /\ \A n \in Enumerated : ProcessedPrimary(n)
              /\ \A e \in Extras : ProcessedExtra(e)
       /\ pc \in WritePcs => pc' \in WritePcs \cup {"done"}
       /\ pc' = "aborted" => pc \in {"fetch_repos", "for_repos", "fetch_tags"}]_vars

\* the transport failed hard in the tag fetch of an extra repository, after a
\* record had been accepted: the run is aborted and versions.txt is the old one
C12_Witness ==
    /\ pc = "aborted"
    /\ caller = "for_extra"
    /\ LastReply = NoReply
    /\ versions # <<>>
    /\ versions_file = FileOf("actions/checkout@v1\n")

\* C13: when README.md does not exist at the call of update_readme, the step
\* leaves it non-existent and changes nothing else, versions.txt already holds
\* the manifest of this run, and the run goes on to save_unversioned, which
\* writes the lines of new_unversioned, whatever README.md is, and finishes.
C13_MissingReadmeSkipped ==
    [][/\ (pc = "update_readme" /\ ~readme_file.exists) =>
              /\ readme_file' = readme_file
              /\ versions_file = FileOf(versions_content(versions))
              /\ pc' = "save_unversioned"
              /\ UNCHANGED <<versions_file, unversioned_file, versions, new_unversioned>>
       /\ pc = "save_unversioned" =>
              /\ unversioned_file' = FileOf(WriteLines(sorted(new_unversioned)))
              /\ pc' = "done"
              /\ UNCHANGED <<versions_file, readme_file>>]_vars

\* a run is done without a README.md, with a manifest line and a cached identifier
C13_Witness ==
    /\ pc = "done"
    /\ ~readme_file.exists
    /\ versions # <<>>
    /\ versions_file = FileOf(versions_content(versions))
    /\ Written # {}

\* the orderings of the lists of tags, by length
TagOrderings == [n \in 0..MaxTags |-> Orderings(n)]

\* the list in another order
Permute(list, f) == [i \in 1..Len(list) |-> list[f[i]]]

\* the integer value of a prefixed-integer or bare-integer tag
IntValue(t) == IF IsPrefixedInteger(t) THEN PrefixedValue(t) ELSE BareValue(t)

\* the tags of the list the selector ranks when the list holds a prefixed or a
\* bare integer, and those of them of the largest value
Ranked == IF PrefixedIn(tags) # {} THEN PrefixedIn(tags) ELSE BareIn(tags)
Top == {t \in Ranked : \A u \in Ranked : IntValue(u) <= IntValue(t)}

\* C14 as stated: two prefixed-integer tags of a list, and two bare-integer tags,
\* of the same value are the same string, and the selector returns the same tag
\* for every ordering of the list.
C14_NoTies ==
    Selected =>
        /\ \A a, b \in PrefixedIn(tags) :
               PrefixedValue(a) = PrefixedValue(b) => strip(a) = strip(b)
        /\ \A a, b \in BareIn(tags) : BareValue(a) = BareValue(b) => strip(a) = strip(b)
        /\ \A f \in TagOrderings[Len(tags)] :
               get_latest_version_tag(Permute(tags, f)) = latest_tag

\* C14 as amended: tags of one convention may differ and have the same value
\* (v1 and v01); of the tags of the largest value the selector returns the one
\* that comes first in the list, so for every ordering of the list the value of
\* the returned tag is the same, and the returned string is the same when the
\* tags of the largest value are one string.
C14_TiesByListOrder ==
    (Selected /\ Ranked # {}) =>
        /\ \E i \in 1..Len(tags) :
               /\ tags[i] \in Top
               /\ latest_tag = Some(strip(tags[i]))
               /\ \A j \in 1..(i - 1) : tags[j] \notin Top
        /\ \A f \in TagOrderings[Len(tags)] :
               LET r == get_latest_version_tag(Permute(tags, f))
               IN  /\ r # None
                   /\ IntValue(r[1]) = IntValue(latest_tag[1])
                   /\ Cardinality({strip(t) : t \in Top}) = 1 => r = latest_tag

\* the selector was called on a list in which v1 and v01 are the prefixed tags
\* of the largest value, v01 first, and returned v01
C14_Witness ==
    /\ Selected
    /\ Top = {"v1", "v01"}
    /\ \E i, j \in 1..Len(tags) : i < j /\ tags[i] = "v01" /\ tags[j] = "v1"
    /\ latest_tag = Some("v01")

\* the page-fetch loops, and the replies that end one: a list of fewer than
\* per_page records, the empty list included, and for tags an error payload
FetchPcs == {"fetch_repos", "fetch_tags"}
IsEndingReply(loop, reply) ==
    \/ reply.kind = "list" /\ Len(reply.items) < per_page
    \/ loop = "fetch_tags" /\ reply = ErrorReply

\* the transport failed: it raised, or the listing of the organization was an
\* error payload, whose keys are no repository records
TransportFailed ==
    \/ log # <<>> /\ LastReply = NoReply
    \/ \E i \in 1..Len(repos) : "name" \notin DOMAIN repos[i]

\* a step of a page-fetch loop: the page requested has not been requested
\* before; the loop is left if the reply is an ending one, and goes on to the
\* next page if it is a full list
LoopStep ==
    pc \in FetchPcs =>
        LET request == log'[Len(log')]
        IN  /\ request.page = page
            /\ \A i \in 1..Len(log) : log[i].page < page
            /\ IsEndingReply(pc, request.reply) => pc' \notin FetchPcs
            /\ (request.reply.kind = "list" /\ Len(request.reply.items) = per_page) =>
                   (pc' = pc /\ page' = page + 1)

\* C15: a page-fetch loop never requests a page twice, is left as soon as the
\* reply is an ending one, and on a full list goes on to the next page, whatever
\* the page number; a run is aborted only when the transport failed; and every
\* run reaches the writing of versions.txt or is aborted.
C15_LoopsEndRunEnds ==
    /\ [][LoopStep]_vars
    /\ [](pc = "aborted" => TransportFailed)
    /\ <>(pc \in {"write_versions", "aborted"})

\* the tags of the last extra repository were fetched in two pages, the first a
\* full one, and the run is at the writing of versions.txt
C15_Witness ==
    /\ pc = "write_versions"
    /\ Len(log) = 2
    /\ log[1].reply.kind = "list" /\ Len(log[1].reply.items) = per_page
    /\ IsEndingReply("fetch_tags", log[2].reply)
    /\ versions # <<>>

\* how far the two for loops of main have come: the number of repositories of
\* the organization, and of extra repositories, whose pass is over
InPrimaryLoop ==
    \/ pc = "for_repos"
    \/ pc \in {"fetch_tags", "got_tags", "aborted"} /\ caller = "for_repos"
InExtraLoop ==
    \/ pc = "for_extra"
    \/ pc \in {"fetch_tags", "got_tags", "aborted"} /\ caller = "for_extra"
PrimaryDone ==
    IF InPrimaryLoop THEN idx - 1
    ELSE IF InExtraLoop \/ pc \in WritePcs \cup {"done"} THEN Len(repos)
    ELSE 0
ExtraDone ==
    IF InExtraLoop THEN idx - 1
    ELSE IF pc \in WritePcs \cup {"done"} THEN Len(EXTRA_REPOS)
    ELSE 0

\* the number of records of a full path in versions
RecordsOf(full_repo) == Cardinality({k \in 1..Len(versions) : versions[k][1] = full_repo})

\* a repository contributed to exactly one accumulation, and to the unversioned
\* one if the loaded cache holds its key
OneContribution(full_repo, key) ==
    /\ \/ RecordsOf(full_repo) = 1 /\ key \notin new_unversioned
       \/ RecordsOf(full_repo) = 0 /\ key \in new_unversioned
    /\ key \in unversioned => key \in new_unversioned

\* C16: at every point of a run, each repository whose pass is over, of the
\* organization or extra, has either exactly one record in versions or its key
\* in new_unversioned, never both and never neither; it is in new_unversioned
\* when the loaded cache holds its key; and the two accumulations hold nothing
\* but these contributions.
C16_ExactlyOneAccumulation ==
    /\ \A i \in 1..PrimaryDone :
           OneContribution(ORG_NAME \o "/" \o repos[i].name, repos[i].name)
    /\ \A i \in 1..ExtraDone : OneContribution(EXTRA_REPOS[i], EXTRA_REPOS[i])
    /\ Len(versions) + Cardinality(new_unversioned) = PrimaryDone + ExtraDone

\* a finished run that skipped a repository of the organization via the cache,
\* accepted a record of another one and of an extra repository, and found an
\* extra repository without a version tag
C16_Witness ==
    /\ pc = "done"
    /\ \E i \in 1..Len(repos) : repos[i].name \in unversioned
    /\ \E i \in 1..Len(repos) : RecordsOf(ORG_NAME \o "/" \o repos[i].name) = 1
    /\ \E i \in 1..Len(EXTRA_REPOS) : RecordsOf(EXTRA_REPOS[i]) = 1
    /\ \E i \in 1..Len(EXTRA_REPOS) :
           EXTRA_REPOS[i] \in new_unversioned \ unversioned

====
